---- MODULE Spec2Model ----
(***************************************************************************)
(* Model of the weekly meal solver of src/app.py: generate_schedule and    *)
(* the button handler that calls it.  One run = one click of "Generate     *)
(* New Week".  Randomness (random.shuffle, random.choice) is a             *)
(* nondeterministic choice.                                                *)
(***************************************************************************)
EXTENDS Integers, Sequences, FiniteSets, TLC

----------------------------------------------------------------------------
(* Program constants                                                       *)

\* days with the week cut short
days_Short == <<"Mon", "Tue", "Wed", "Thu", "Fri", "Sat">>

days == <<"Mon", "Tue", "Wed", "Thu", "Fri", "Sat", "Sun">>

STAPLES == {"rice", "roti", "chapati", "curd", "yogurt", "bread", "ghee", "coffee", "tea"}

Categories == <<"Breakfast", "Lunch", "Snack", "Dinner">>

protein_map == [High |-> 3, Medium |-> 2, Low |-> 1]

MaxAttempts == 50

MinScore == 5

HighScore == 7

\* get_meal_data returns None on every failure path (a value that is no
\* catalog and has no category key).
None == [isNone |-> TRUE]

----------------------------------------------------------------------------
(* Catalog items.  An item is a record (a dict); 'ingredients' is a list.   *)

Item(n, ings, p) == [name |-> n, ingredients |-> ings, protein |-> p]

AlooParatha   == Item("Aloo Paratha",   <<"potato", "roti">>,  "High")
PaneerParatha == Item("Paneer Paratha", <<"paneer", "roti">>,  "High")
MoongChilla   == Item("Moong Chilla",   <<"moong", "curd">>,   "High")
Poha          == Item("Poha",           <<"potato", "rice">>,  "Low")
Toast         == Item("Toast",          <<"bread", "tea">>,    "Low")
DalRice       == Item("Dal Rice",       <<"dal", "rice">>,     "Medium")
PaneerCurry   == Item("Paneer Curry",   <<"paneer", "roti">>,  "High")
AlooSabzi     == Item("Aloo Sabzi",     <<"potato", "roti">>,  "Medium")
ButterRoti    == Item("Butter Roti",    <<"roti", "ghee">>,    "Low")
Khichdi       == Item("Khichdi",        <<"dal", "potato", "rice">>, "12g")
\* a record the enrichment step left without its 'protein' field
NoProtein     == [name |-> "Upma", ingredients |-> <<"rava">>]

----------------------------------------------------------------------------
(* Helpers for Python values                                               *)

\* set(list)
ToSet(s) == {s[i] : i \in DOMAIN s}

\* the empty dict {}
EmptyDict == [c \in {} |-> <<>>]

\* dict[key] = value
DictSet(d, k, v) == [c \in (DOMAIN d) \cup {k} |-> IF c = k THEN v ELSE d[c]]

\* truth value of what get_meal_data returned: None and {} are falsy
Truthy(d) == d # None /\ DOMAIN d # {}

\* meal_db.get(cat, [])
Options(db, cat) == IF cat \in DOMAIN db THEN db[cat] ELSE <<>>

\* Shuffles drawing with replacement (random.choices in place of shuffle)
Shuffles_WithReplacement(list) ==
    {[i \in 1..Len(list) |-> list[f[i]]] : f \in [1..Len(list) -> 1..Len(list)]}

\* every order random.shuffle can leave a list in
Shuffles(list) ==
    {[i \in 1..Len(list) |-> list[f[i]]] :
        f \in {g \in [1..Len(list) -> 1..Len(list)] :
                 \A i, j \in 1..Len(list) : g[i] = g[j] => i = j}}

----------------------------------------------------------------------------
(* Constraint evaluation, lines 113-133                                    *)

\* CriticalIngs without the staple filter of line 119
CriticalIngs_KeepStaples(opt) ==
    IF "ingredients" \in DOMAIN opt THEN ToSet(opt.ingredients) ELSE {}

\* set(opt.get('ingredients', [])) - STAPLES
CriticalIngs(opt) ==
    (IF "ingredients" \in DOMAIN opt THEN ToSet(opt.ingredients) ELSE {}) \ STAPLES

\* Rule 1: the option shares a critical ingredient with today's picks
SameDayClash(opt, tIng) == CriticalIngs(opt) \cap tIng # {}

\* Rule 2 reaches the read of opt['protein']
CrossDayClash(opt, tIng, hist) ==
    ~SameDayClash(opt, tIng) /\ CriticalIngs(opt) \cap hist # {}

\* the read of opt['protein'] at line 129 raises KeyError
ScanRaises(opt, tIng, hist) ==
    CrossDayClash(opt, tIng, hist) /\ "protein" \notin DOMAIN opt

\* Rejects without Rule 1 (lines 122-123)
Rejects_NoSameDay(opt, tIng, hist) ==
    CrossDayClash(opt, tIng, hist) /\ "protein" \in DOMAIN opt /\ opt.protein = "High"

\* Rejects without the High test of lines 127-130
Rejects_NoCrossDay(opt, tIng, hist) == SameDayClash(opt, tIng)

\* the scan skips the option ('continue' at line 123 or 130)
Rejects(opt, tIng, hist) ==
    \/ SameDayClash(opt, tIng)
    \/ CrossDayClash(opt, tIng, hist) /\ "protein" \in DOMAIN opt /\ opt.protein = "High"

\* for opt in options: index of the option the scan stops at, 0 when it
\* runs off the end, -1 when it raises
RECURSIVE Scan(_, _, _, _)
Scan(options, i, tIng, hist) ==
    IF i > Len(options) THEN 0
    ELSE IF ScanRaises(options[i], tIng, hist) THEN -1
    ELSE IF Rejects(options[i], tIng, hist) THEN Scan(options, i + 1, tIng, hist)
    ELSE i

\* Picks without lines 137-138: 'selected' stays None when the scan fails
Picks_NoFallback(options, found) ==
    IF found > 0 THEN {found} ELSE {0}

\* Picks without the 'not selected' guard of line 137: random.choice always
Picks_Any(options, found) ==
    IF options # <<>> THEN 1..Len(options) ELSE {0}

\* lines 135-138: indexes 'selected' can end up at, given the scan's result
\* (0 is None: nothing to choose from)
Picks(options, found) ==
    IF found > 0 THEN {found}
    ELSE IF options # <<>> THEN 1..Len(options) ELSE {0}

\* protein_map.get(p, 1)
ProteinScore(p) == IF p \in DOMAIN protein_map THEN protein_map[p] ELSE 1

\* lines 143-144 raise KeyError on a selected item without its fields
UpdateRaises(sel) == "ingredients" \notin DOMAIN sel \/ "protein" \notin DOMAIN sel

\* Slot with another default for an unfilled slot
Slot_Blank(menu, cat) ==
    IF cat \in DOMAIN menu /\ "name" \in DOMAIN menu[cat] THEN menu[cat].name ELSE ""

\* lines 165-168: daily_menu.get(cat, {}).get('name', '-')
Slot(menu, cat) ==
    IF cat \in DOMAIN menu /\ "name" \in DOMAIN menu[cat] THEN menu[cat].name ELSE "-"

\* line 169: the protein summary of the day (the labels without their emoji)
ProteinLevel(score) == IF score > HighScore THEN "High" ELSE "Good"

RowKeys == {"Day", "Breakfast", "Lunch", "Snack", "Dinner", "Protein Level"}

\* lines 163-170: the row appended for one day
Row(day, menu, score) ==
    [k \in RowKeys |->
        IF k = "Day" THEN day
        ELSE IF k = "Protein Level" THEN ProteinLevel(score)
        ELSE Slot(menu, k)]

\* Accepts with the comparison the comment of line 146 words (Score > 5)
Accepts_Strict(score) == score > MinScore

\* line 147: the attempt is accepted
Accepts(score) == score >= MinScore

\* line 153 left out
NextAttempt_Stuck(a) == a

\* line 153
NextAttempt(a) == a + 1

\* lines 156-157 left out
FinalMenu_NoFallback(dMenu, tMenu) == dMenu

\* lines 156-157: the menu the day is recorded with
FinalMenu(dMenu, tMenu) == IF dMenu = EmptyDict THEN tMenu ELSE dMenu

\* line 158 left out
FinalScore_NoFallback(dMenu, dScore, tScore) == dScore

\* lines 156, 158: the score the day is recorded with
FinalScore(dMenu, dScore, tScore) == IF dMenu = EmptyDict THEN tScore ELSE dScore

\* line 161: what tomorrow's scan sees as history
NextHistory(dIng, tIng) == dIng

----------------------------------------------------------------------------
(* The catalogs a run is started with: what get_meal_data can hand to the  *)
(* button handler.                                                         *)

Dict(b, l, s, d) == [c \in {"Breakfast", "Lunch", "Snack", "Dinner"} |->
                        CASE c = "Breakfast" -> b [] c = "Lunch" -> l
                          [] c = "Snack" -> s [] c = "Dinner" -> d]

\* final_db when no enriched record matched a sheet name
AllEmpty == Dict(<<>>, <<>>, <<>>, <<>>)

\* one item per category; Lunch clashes with Breakfast, Snack is all staples,
\* Dinner has no items
Singletons == Dict(<<PaneerParatha>>, <<PaneerCurry>>, <<ButterRoti>>, <<>>)

\* one item per category, Dinner clashing with Breakfast and with a protein
\* value outside protein_map; the threshold is never reached; no Lunch and
\* no Snack key at all
LowOnly == [c \in {"Breakfast", "Dinner"} |->
               IF c = "Breakfast" THEN <<Poha>> ELSE <<Khichdi>>]

\* the threshold is reached only when Paneer Paratha is drawn; Toast is all
\* staples
Mixed == Dict(<<PaneerParatha, Toast>>, <<DalRice>>, <<>>, <<>>)

\* Lunch has an option clear of today's picks that the history rule rejects
Clash == Dict(<<AlooParatha>>, <<PaneerCurry, AlooSabzi>>, <<>>, <<>>)

\* a record outside the input contract
Broken == Dict(<<NoProtein>>, <<>>, <<>>, <<>>)

\* longest Breakfast list of the generated catalogs
MaxLen == 2

\* Breakfast items of the generated catalogs
Pool == <<PaneerParatha, AlooParatha, MoongChilla>>

\* the sub-sequences of Pool from its i-th item on
RECURSIVE SubSeqs(_)
SubSeqs(i) ==
    IF i > Len(Pool) THEN {<<>>}
    ELSE SubSeqs(i + 1) \cup {<<Pool[i]>> \o s : s \in SubSeqs(i + 1)}

\* Lunch lists of the generated catalogs: clear of every Pool item, clashing
\* with Paneer Paratha (and High), clashing with Aloo Paratha
Lunches == {<<DalRice>>, <<PaneerCurry>>, <<AlooSabzi>>}

\* every Breakfast list of at most MaxLen Pool items, with each Lunch list
Family ==
    {Dict(b, l, <<>>, <<>>) : b \in {s \in SubSeqs(1) : Len(s) <= MaxLen}, l \in Lunches}

Catalogs ==
    {AllEmpty, Singletons, LowOnly, Mixed, Clash, Broken, EmptyDict, None} \cup Family

\* the input contract of generate_schedule: every item has its three fields
MeetsContract(db) ==
    /\ db # None
    /\ \A c \in DOMAIN db : \A i \in DOMAIN db[c] :
          {"name", "ingredients", "protein"} \subseteq DOMAIN db[c][i]

----------------------------------------------------------------------------
(* State                                                                   *)

VARIABLES
    catalog,              \* the value get_meal_data returned, as returned
    meal_db,              \* the same object, as random.shuffle leaves it
    pc,                   \* position of the run
    week_plan,
    history_ingredients,
    day_i,                \* index into days of the for loop
    daily_menu, daily_ingredients, daily_score, attempts,
    temp_menu, temp_ing, temp_score,
    cat_i,                \* index into Categories of the inner for loop
    forced,               \* categories of this attempt set by random.choice
    week_forced,          \* forced, per recorded day
    shown                 \* what the page displays: nothing, a table, an error

vars == <<catalog, meal_db, pc, week_plan, history_ingredients, day_i,
          daily_menu, daily_ingredients, daily_score, attempts,
          temp_menu, temp_ing, temp_score, cat_i, forced, week_forced, shown>>

dayVars == <<daily_menu, daily_ingredients, daily_score>>
tempVars == <<temp_menu, temp_ing, temp_score, forced>>

Init ==
    /\ catalog \in Catalogs
    /\ meal_db = catalog
    /\ pc = "button"
    /\ week_plan = <<>>
    /\ history_ingredients = {}
    /\ day_i = 1
    /\ daily_menu = EmptyDict /\ daily_ingredients = {} /\ daily_score = 0
    /\ attempts = 0
    /\ temp_menu = EmptyDict /\ temp_ing = {} /\ temp_score = 0
    /\ cat_i = 1
    /\ forced = {}
    /\ week_forced = <<>>
    /\ shown = "nothing"

----------------------------------------------------------------------------
(* Actions                                                                 *)

\* lines 178-183, 185-186: the click, up to the call of generate_schedule
\* (lines 82-89) or the error message
Button ==
    /\ pc = "button"
    /\ IF Truthy(meal_db)
         THEN pc' = "for" /\ shown' = shown
         ELSE pc' = "error" /\ shown' = "error"
    /\ week_plan' = <<>>
    /\ history_ingredients' = {}
    /\ UNCHANGED <<catalog, meal_db, day_i, dayVars, attempts, tempVars, cat_i,
                   week_forced>>

\* lines 91-95: the next day starts
StartDay ==
    /\ pc = "for"
    /\ day_i <= Len(days)
    /\ daily_menu' = EmptyDict
    /\ daily_ingredients' = {}
    /\ daily_score' = 0
    /\ attempts' = 0
    /\ pc' = "while"
    /\ UNCHANGED <<catalog, meal_db, week_plan, history_ingredients, day_i,
                   tempVars, cat_i, week_forced, shown>>

\* lines 98-104: another attempt starts
StartAttempt ==
    /\ pc = "while"
    /\ attempts < MaxAttempts
    /\ temp_menu' = EmptyDict
    /\ temp_ing' = {}
    /\ temp_score' = 0
    /\ forced' = {}
    /\ cat_i' = 1
    /\ pc' = "cat"
    /\ UNCHANGED <<catalog, meal_db, week_plan, history_ingredients, day_i,
                   dayVars, attempts, week_forced, shown>>

\* line 98 with attempts = 50: the loop ends without a break
GiveUp ==
    /\ pc = "while"
    /\ ~(attempts < MaxAttempts)
    /\ pc' = "endday"
    /\ UNCHANGED <<catalog, meal_db, week_plan, history_ingredients, day_i,
                   dayVars, attempts, tempVars, cat_i, week_forced, shown>>

\* where the run goes after the body for Categories[cat_i]
AfterCat == IF cat_i = Len(Categories) THEN "accept" ELSE "cat"

\* lines 106-108: a category without options is skipped
SkipCategory ==
    /\ pc = "cat"
    /\ Options(meal_db, Categories[cat_i]) = <<>>
    /\ cat_i' = cat_i + 1
    /\ pc' = AfterCat
    /\ UNCHANGED <<catalog, meal_db, week_plan, history_ingredients, day_i,
                   dayVars, attempts, tempVars, week_forced, shown>>

\* lines 106-144: shuffle, scan, fall back, record the pick
PickCategory ==
    /\ pc = "cat"
    /\ Options(meal_db, Categories[cat_i]) # <<>>
    /\ \E options \in Shuffles(meal_db[Categories[cat_i]]) :
        LET cat == Categories[cat_i]
            found == Scan(options, 1, temp_ing, history_ingredients)
        IN  /\ meal_db' = [meal_db EXCEPT ![cat] = options]
            /\ found >= 0
            /\ \E k \in Picks(options, found) :
                 IF k = 0
                   THEN UNCHANGED tempVars
                   ELSE LET selected == options[k] IN
                        /\ ~UpdateRaises(selected)
                        /\ temp_menu' = DictSet(temp_menu, cat, selected)
                        /\ temp_ing' = temp_ing \cup CriticalIngs(selected)
                        /\ temp_score' = temp_score + ProteinScore(selected.protein)
                        /\ forced' = IF found > 0 THEN forced ELSE forced \cup {cat}
    /\ cat_i' = cat_i + 1
    /\ pc' = AfterCat
    /\ UNCHANGED <<catalog, week_plan, history_ingredients, day_i, dayVars,
                   attempts, week_forced, shown>>

\* lines 129, 143, 144: a KeyError leaves generate_schedule and the handler
Raise ==
    /\ pc = "cat"
    /\ Options(meal_db, Categories[cat_i]) # <<>>
    /\ \E options \in Shuffles(meal_db[Categories[cat_i]]) :
        LET cat == Categories[cat_i]
            found == Scan(options, 1, temp_ing, history_ingredients)
        IN  /\ meal_db' = [meal_db EXCEPT ![cat] = options]
            /\ \/ found < 0
               \/ found >= 0 /\ \E k \in Picks(options, found) : k > 0 /\ UpdateRaises(options[k])
    /\ pc' = "raised"
    /\ UNCHANGED <<catalog, week_plan, history_ingredients, day_i, dayVars,
                   attempts, tempVars, cat_i, week_forced, shown>>

\* lines 147-151: the attempt reaches the score, the day is built
Accept ==
    /\ pc = "accept"
    /\ Accepts(temp_score)
    /\ daily_menu' = temp_menu
    /\ daily_ingredients' = temp_ing
    /\ daily_score' = temp_score
    /\ pc' = "endday"
    /\ UNCHANGED <<catalog, meal_db, week_plan, history_ingredients, day_i,
                   attempts, tempVars, cat_i, week_forced, shown>>

\* lines 147, 153: the attempt is dropped
Retry ==
    /\ pc = "accept"
    /\ ~Accepts(temp_score)
    /\ attempts' = NextAttempt(attempts)
    /\ pc' = "while"
    /\ UNCHANGED <<catalog, meal_db, week_plan, history_ingredients, day_i,
                   dayVars, tempVars, cat_i, week_forced, shown>>

\* lines 155-170: the day is recorded
EndDay ==
    /\ pc = "endday"
    /\ daily_menu' = FinalMenu(daily_menu, temp_menu)
    /\ daily_score' = FinalScore(daily_menu, daily_score, temp_score)
    /\ history_ingredients' = NextHistory(daily_ingredients, temp_ing)
    /\ week_plan' = Append(week_plan, Row(days[day_i], daily_menu', daily_score'))
    /\ week_forced' = Append(week_forced, forced)
    /\ day_i' = day_i + 1
    /\ pc' = "for"
    /\ UNCHANGED <<catalog, meal_db, daily_ingredients, attempts, tempVars,
                   cat_i, shown>>

\* lines 172, 184: the schedule is returned and displayed
Return ==
    /\ pc = "for"
    /\ day_i > Len(days)
    /\ shown' = "table"
    /\ pc' = "done"
    /\ UNCHANGED <<catalog, meal_db, week_plan, history_ingredients, day_i,
                   dayVars, attempts, tempVars, cat_i, week_forced>>

Next ==
    \/ Button
    \/ StartDay
    \/ StartAttempt
    \/ GiveUp
    \/ SkipCategory
    \/ PickCategory
    \/ Raise
    \/ Accept
    \/ Retry
    \/ EndDay
    \/ Return

Spec == Init /\ [][Next]_vars

\* the run is one synchronous call: it keeps taking steps until it ends
FairSpec == Spec /\ WF_vars(Next)

----------------------------------------------------------------------------
(* Vocabulary of the properties                                            *)

\* the list the catalog was given for a category (none when the key is missing)
CatalogList(c) == IF catalog # None /\ c \in DOMAIN catalog THEN catalog[c] ELSE <<>>

CategorySet == {"Breakfast", "Lunch", "Snack", "Dinner"}

NonEmptyCats == {c \in CategorySet : CatalogList(c) # <<>>}

NamesOf(list) == {list[i].name : i \in DOMAIN list}

\* the catalog item of category c with the given name
Lookup(c, n) == CHOOSE it \in ToSet(CatalogList(c)) : it.name = n

\* the attempt in temp_menu is the one built under history_ingredients
InAttempt == pc \in {"cat", "accept", "endday"}

\* a day has just been recorded: daily_menu and daily_score are that day's
JustRecorded == pc = "for" /\ Len(week_plan) > 0

LastRow == week_plan[Len(week_plan)]

----------------------------------------------------------------------------
(* C1 *)

\* C1: for every catalog that meets the input contract, generate_schedule
\* raises nothing, never makes more than 50 attempts in a day, never goes past
\* the 4 categories in an attempt, and the run reaches its end.
C1_Terminates ==
    /\ [](MeetsContract(catalog) =>
            /\ pc # "raised"
            /\ attempts <= 50
            /\ cat_i <= 5
            /\ day_i <= 8)
    /\ ((MeetsContract(catalog) /\ Truthy(catalog)) ~> (pc = "done"))

\* a run that ended after a day that used up all 50 attempts
C1_Witness ==
    /\ pc = "done"
    /\ MeetsContract(catalog)
    /\ attempts = 50
    /\ Len(week_plan) = 7

----------------------------------------------------------------------------
(* C2 *)

\* C2: the returned schedule has exactly seven rows labelled Mon..Sun in
\* that order, and no step changes a row that is already in week_plan.
C2_SevenRowsInOrder ==
    /\ [](pc = "done" =>
            /\ Len(week_plan) = 7
            /\ [i \in 1..7 |-> week_plan[i]["Day"]]
                 = <<"Mon", "Tue", "Wed", "Thu", "Fri", "Sat", "Sun">>)
    /\ [][/\ Len(week_plan') >= Len(week_plan)
          /\ \A i \in 1..Len(week_plan) : week_plan'[i] = week_plan[i]]_vars

\* a returned schedule whose rows differ from day to day
C2_Witness ==
    /\ pc = "done"
    /\ Len(week_plan) = 7
    /\ week_plan[1]["Breakfast"] # week_plan[2]["Breakfast"]
    /\ week_plan[7]["Day"] = "Sun"

----------------------------------------------------------------------------
(* C3 *)

\* C3: in every recorded row, the slot of every category with a non-empty
\* catalog list holds the name of an item of that list, never '-'.
C3_NoFailureState ==
    \A i \in 1..Len(week_plan) : \A c \in NonEmptyCats :
        /\ week_plan[i][c] \in NamesOf(CatalogList(c))
        /\ week_plan[i][c] # "-"

\* a recorded day taken from the 50th attempt, with a slot set by the
\* random fallback, and a recorded day accepted on its score
C3_Witness ==
    /\ JustRecorded
    /\ attempts = 50
    /\ forced # {}
    /\ \A c \in NonEmptyCats : LastRow[c] # "-"
    /\ NonEmptyCats # {}

----------------------------------------------------------------------------
(* C4 *)

\* position of a category in the fixed order of the day
CatPos(c) == CHOOSE i \in 1..4 : Categories[i] = c

\* ingredients minus STAPLES, as the claims define critical ingredients
Critical(it) == ToSet(it.ingredients) \ STAPLES

\* the day's accumulated critical set when category c of menu was drawn
Prior(menu, c) ==
    UNION {Critical(menu[b]) : b \in {x \in DOMAIN menu : CatPos(x) < CatPos(c)}}

\* C4 as claimed: on every recorded day, a category that had a candidate
\* clear of the day's accumulated critical set at draw time holds an item
\* whose critical ingredients are disjoint from those of every other item
\* of that day.
C4_Original ==
    JustRecorded =>
        \A c \in DOMAIN daily_menu :
            (\E k \in DOMAIN meal_db[c] :
                 Critical(meal_db[c][k]) \cap Prior(daily_menu, c) = {})
            => \A b \in (DOMAIN daily_menu) \ {c} :
                 Critical(daily_menu[c]) \cap Critical(daily_menu[b]) = {}

\* C4 (amended): in every attempt, so on every recorded day, a category that
\* had a candidate clear of the day's accumulated critical set at draw time,
\* that candidate not being a High item clashing with history_ingredients,
\* holds an item whose critical ingredients are disjoint from those of the
\* items selected before it that day.
C4_DisjointFromEarlier ==
    InAttempt =>
        \A c \in DOMAIN temp_menu :
            (\E k \in DOMAIN meal_db[c] :
                 /\ Critical(meal_db[c][k]) \cap Prior(temp_menu, c) = {}
                 /\ ~(/\ meal_db[c][k].protein = "High"
                      /\ Critical(meal_db[c][k]) \cap history_ingredients # {}))
            => Critical(temp_menu[c]) \cap Prior(temp_menu, c) = {}

\* Lunch is drawn with Aloo Sabzi, which clashes with Breakfast, ahead of
\* Paneer Curry in the shuffled order, and the scan settles on Paneer Curry
C4_Witness ==
    /\ pc = "accept"
    /\ catalog = Clash
    /\ meal_db["Lunch"][1] = AlooSabzi
    /\ "Lunch" \in DOMAIN temp_menu
    /\ temp_menu["Lunch"] = PaneerCurry
    /\ "Lunch" \notin forced

----------------------------------------------------------------------------
(* C5 *)

\* rows i and j lie in the same cycle of length n
SameCycle(i, j, n) == (i - 1) \div n = (j - 1) \div n

\* C5 as claimed: in a category with n items, within each cycle of n
\* consecutive recorded days in which no selection of the category was
\* forced by a collision, no item is recorded twice.
C5_Original ==
    \A c \in NonEmptyCats :
        \A i, j \in 1..Len(week_plan) :
            (/\ i < j
             /\ SameCycle(i, j, Len(CatalogList(c)))
             /\ \A d \in i..j : c \notin week_forced[d])
            => week_plan[i][c] # week_plan[j][c]

\* protein score of a recorded row
RECURSIVE RowScore(_, _)
RowScore(row, i) ==
    IF i > Len(Categories) THEN 0
    ELSE (IF row[Categories[i]] = "-" THEN 0
          ELSE ProteinScore(Lookup(Categories[i], row[Categories[i]]).protein))
         + RowScore(row, i + 1)

\* row i was accepted on its score, and its item for c is a High item with
\* a critical ingredient
HighAccepted(i, c) ==
    /\ RowScore(week_plan[i], 1) >= 5
    /\ Lookup(c, week_plan[i][c]).protein = "High"
    /\ Critical(Lookup(c, week_plan[i][c])) # {}

\* C5 (amended): items are not drawn without replacement, so an item can be
\* recorded again before the others of its category; what holds is that a
\* High item with a critical ingredient, recorded on a day accepted on its
\* score, is not selected by the next day's scan for that category (it can
\* return there only through the random fallback).
C5_HighNotRepeatedByScan ==
    \A c \in NonEmptyCats :
        \A i \in 1..(Len(week_plan) - 1) :
            (HighAccepted(i, c) /\ c \notin week_forced[i + 1])
            => week_plan[i + 1][c] # week_plan[i][c]

\* Paneer Paratha on an accepted Monday, Toast by the scan on Tuesday
C5_Witness ==
    /\ catalog = Mixed
    /\ Len(week_plan) >= 2
    /\ HighAccepted(1, "Breakfast")
    /\ "Breakfast" \notin week_forced[2]
    /\ week_plan[1]["Breakfast"] = "Paneer Paratha"
    /\ week_plan[2]["Breakfast"] = "Toast"

----------------------------------------------------------------------------
(* C6 *)

\* the catalog has no item in any category
CatalogEmpty == catalog # None /\ \A c \in DOMAIN catalog : catalog[c] = <<>>

\* C6: when the catalog has zero items across all categories, no schedule
\* row is built or displayed and the run ends with an error shown.
C6_CatalogEmptyIsFatal ==
    CatalogEmpty =>
        /\ week_plan = <<>>
        /\ shown # "table"
        /\ pc = "done" => shown = "error"

----------------------------------------------------------------------------
(* C7 *)

\* C7: a category whose list is empty or whose key is missing, in a catalog
\* with some item, has no entry in any menu, shows '-' in every row and adds
\* nothing to the score the day is recorded with, and the categories that
\* have items are filled in every row.
C7_CategoryEmptyNotFatal ==
    (catalog # None /\ NonEmptyCats # {}) =>
        /\ \A c \in CategorySet \ NonEmptyCats :
              /\ c \notin DOMAIN temp_menu
              /\ c \notin DOMAIN daily_menu
              /\ \A i \in 1..Len(week_plan) : week_plan[i][c] = "-"
        /\ \A c \in NonEmptyCats :
              \A i \in 1..Len(week_plan) : week_plan[i][c] # "-"
        /\ JustRecorded =>
              daily_score = RowScore([c \in CategorySet |->
                                        IF c \in NonEmptyCats THEN LastRow[c] ELSE "-"], 1)
        /\ pc = "done" => Len(week_plan) = 7

\* a finished week for a catalog with a missing key, and one with an empty list
C7_Witness ==
    /\ pc = "done"
    /\ catalog # None
    /\ NonEmptyCats # {}
    /\ \/ "Snack" \notin DOMAIN catalog
       \/ "Dinner" \in DOMAIN catalog /\ catalog["Dinner"] = <<>>
    /\ \A i \in 1..7 : week_plan[i]["Breakfast"] # "-"

----------------------------------------------------------------------------
(* C8 *)

\* every ingredient of the option is a staple
AllStaples(opt) == ToSet(opt.ingredients) \subseteq STAPLES

\* C8: temp_ing, daily_ingredients and history_ingredients never hold a
\* staple, and the scan never rejects an option made of staples only: with
\* such an option in the list the pick is never left to the fallback and is
\* that option or one scanned before it.
C8_StaplesNeverBlock ==
    /\ (temp_ing \cup daily_ingredients \cup history_ingredients) \cap STAPLES = {}
    /\ InAttempt =>
          \A c \in DOMAIN temp_menu : \A k \in DOMAIN meal_db[c] :
              AllStaples(meal_db[c][k]) =>
                  /\ c \notin forced
                  /\ \E j \in 1..k : temp_menu[c] = meal_db[c][j]

\* on a later day, Butter Roti, all staples, passes the scan after two items
\* that hold roti too, and roti is in none of the tracking sets
C8_Witness ==
    /\ pc = "accept"
    /\ catalog = Singletons
    /\ Len(week_plan) >= 1
    /\ history_ingredients = {"paneer"}
    /\ temp_ing = {"paneer"}
    /\ temp_menu["Snack"] = ButterRoti
    /\ "Snack" \notin forced
    /\ "roti" \in ToSet(temp_menu["Breakfast"].ingredients)
                    \cap ToSet(temp_menu["Snack"].ingredients)

----------------------------------------------------------------------------
(* C9 *)

\* C9: a category with exactly one item shows that item in every row.
C9_SingleItemEveryDay ==
    \A c \in CategorySet :
        Len(CatalogList(c)) = 1 =>
            \A i \in 1..Len(week_plan) : week_plan[i][c] = CatalogList(c)[1].name

\* a finished week in which the single Lunch item clashed with Breakfast on
\* Monday and the single Breakfast item clashed with Monday's set on Tuesday
C9_Witness ==
    /\ pc = "done"
    /\ catalog = Singletons
    /\ "Lunch" \in week_forced[1]
    /\ "Breakfast" \in week_forced[2]
    /\ \A i \in 1..7 : week_plan[i]["Breakfast"] = "Paneer Paratha"

----------------------------------------------------------------------------
(* C10 *)

\* C10: when a day is recorded, daily_score, from which the row's protein
\* summary is computed, is the sum of the protein values of exactly the
\* items named in the row, plus the booster contribution of the day, which
\* is nothing since generate_schedule applies no booster.
C10_ProteinAggregation ==
    JustRecorded =>
        /\ daily_score = RowScore(LastRow, 1)
        /\ LastRow["Protein Level"] = (IF daily_score > 7 THEN "High" ELSE "Good")
        /\ \A c \in CategorySet :
              LastRow[c] = (IF c \in DOMAIN daily_menu THEN daily_menu[c].name ELSE "-")

\* a day recorded from the 50th attempt, with an item scored by the default
\* of protein_map.get
C10_Witness ==
    /\ JustRecorded
    /\ attempts = 50
    /\ daily_score = 2
    /\ LastRow["Dinner"] = "Khichdi"
    /\ LastRow["Protein Level"] = "Good"

----------------------------------------------------------------------------
(* C11 *)

\* the item is below the Medium tier
BelowMinimum(it) == ProteinScore(it.protein) < 2

\* C11: on every recorded day, a slot of a category other than Snack whose
\* item is below the Medium tier displays the item with one supplement
\* appended (so not the bare name) and the day's total exceeds the sum of
\* the items' own protein values; every other slot displays the bare name.
C11_BoosterApplied ==
    JustRecorded =>
        /\ \A c \in DOMAIN daily_menu :
              IF c # "Snack" /\ BelowMinimum(daily_menu[c])
                THEN LastRow[c] # daily_menu[c].name
                ELSE LastRow[c] = daily_menu[c].name
        /\ (\E c \in DOMAIN daily_menu : c # "Snack" /\ BelowMinimum(daily_menu[c]))
              => daily_score > RowScore([c \in CategorySet |->
                                           IF c \in DOMAIN daily_menu
                                             THEN daily_menu[c].name ELSE "-"], 1)

----------------------------------------------------------------------------
(* C12 *)

----------------------------------------------------------------------------
(* C13 *)

\* the critical-ingredient set of the items named in a row
RowCritical(row) ==
    UNION {Critical(Lookup(c, row[c])) : c \in {x \in CategorySet : row[x] # "-"}}

\* C13: when a day has been recorded, so at the start of every day after
\* Monday, history_ingredients is the critical-ingredient set of the items
\* of the row just recorded, whether that day was accepted on its score or
\* taken from the last attempt.
C13_HistoryThreaded ==
    JustRecorded => history_ingredients = RowCritical(LastRow)

----------------------------------------------------------------------------
(* C14 *)

\* the critical set of the previous day's row, while a later day is built
PreviousDaySet == IF week_plan = <<>> THEN {} ELSE RowCritical(LastRow)

\* C14: in every attempt, so on every recorded day, a High item whose
\* critical ingredients intersect the previous day's critical set is in the
\* menu only through the fallback: every option of its category failed the
\* scan.
C14_HighStrictAcrossDays ==
    InAttempt =>
        \A c \in DOMAIN temp_menu :
            (/\ temp_menu[c].protein = "High"
             /\ Critical(temp_menu[c]) \cap PreviousDaySet # {})
            => c \in forced

----------------------------------------------------------------------------
(* C15 *)

\* C15 as claimed: a category whose every option failed the scan holds the
\* first item of its shuffled order.
C15_Original ==
    InAttempt => \A c \in forced : temp_menu[c] = meal_db[c][1]

\* positions of the shuffled list of c that pass both rules of the scan,
\* given the items picked before c and history_ingredients
Passing(c) ==
    {k \in DOMAIN meal_db[c] :
        /\ Critical(meal_db[c][k]) \cap Prior(temp_menu, c) = {}
        /\ ~(/\ meal_db[c][k].protein = "High"
             /\ Critical(meal_db[c][k]) \cap history_ingredients # {})}

\* C15 (amended): when some option passes the scan the item selected is the
\* first passing option of the shuffled order, a function of the order and
\* the tracking sets; when none passes, the item is one drawn by
\* random.choice from the category's list, any of its items and not
\* necessarily the first.
C15_FallbackIsRandomChoice ==
    InAttempt =>
        \A c \in DOMAIN temp_menu :
            IF Passing(c) = {}
              THEN c \in forced /\ \E k \in DOMAIN meal_db[c] : temp_menu[c] = meal_db[c][k]
              ELSE /\ c \notin forced
                   /\ \E k \in Passing(c) :
                         /\ temp_menu[c] = meal_db[c][k]
                         /\ \A j \in Passing(c) : k <= j

\* no Lunch option passes on a later day, and random.choice takes the second
\* item of the shuffled order
C15_Witness ==
    /\ pc = "accept"
    /\ catalog = Clash
    /\ "Lunch" \in forced
    /\ Passing("Lunch") = {}
    /\ temp_menu["Lunch"] = meal_db["Lunch"][2]
    /\ temp_menu["Lunch"] # meal_db["Lunch"][1]

----------------------------------------------------------------------------
(* C16 *)

\* C16: after the call every category's list in the catalog passed to
\* generate_schedule is the same sequence, in the same order, as before it.
C16_CatalogReadOnly ==
    pc = "done" => meal_db = catalog

----------------------------------------------------------------------------
(* C17 *)

\* number of positions of the list that hold x
Count(list, x) == Cardinality({i \in DOMAIN list : list[i] = x})

\* the two lists hold the same items the same number of times
IsPermutation(a, b) ==
    /\ Len(a) = Len(b)
    /\ \A x \in ToSet(a) \cup ToSet(b) : Count(a, x) = Count(b, x)

\* C17: in every state meal_db has the keys of the catalog passed in and
\* each of its lists is a permutation of the list passed in: no item is
\* added, removed or duplicated.
C17_ListsArePermutations ==
    catalog # None =>
        /\ DOMAIN meal_db = DOMAIN catalog
        /\ \A c \in DOMAIN catalog : IsPermutation(meal_db[c], catalog[c])

\* a run that ended with the Breakfast list in another order than passed in
C17_Witness ==
    /\ pc = "done"
    /\ catalog = Mixed
    /\ meal_db["Breakfast"] = <<Toast, PaneerParatha>>
    /\ meal_db["Breakfast"] # catalog["Breakfast"]

====
